---- MODULE Spec2Model ----
(***************************************************************************)
(* Model of experiment/src/game.rs: the sleigh delivery game.              *)
(*                                                                         *)
(* Durations are counted in quarter hours (geom::Duration is a signed      *)
(* quantity: the difference of two durations may be negative).  Points are *)
(* cells of a small grid; a building's polygon is the set of cells it      *)
(* covers.                                                                 *)
(***************************************************************************)
EXTENDS Integers, Sequences, FiniteSets, TLC

\* ------------------------------------------------------------------ bounds
MaxStep == 1
MaxDt == 2
MaxCatalog == 2

\* ------------------------------------------------------- program constants
\* Duration::minutes, in quarter hours
Minutes(m) == m \div 15

\* Config
recharge_rate == 1000
max_energy == Minutes(90)

\* Option::None of Option<BuildingID> and of Option<Duration>
NoBldg == -1
NoUpdate == -1

\* ------------------------------------------------------------ the map
\* app.map.all_buildings(): the catalog, in catalog order; id = index - 1
Buildings ==
  << [id |-> 0, bldg_type |-> "Empty",       amenities |-> 0,
      polygon |-> {<<2, 1>>}, label_center |-> <<2, 1>>],
     [id |-> 1, bldg_type |-> "Commercial",  amenities |-> 1,
      polygon |-> {<<0, 0>>}, label_center |-> <<0, 0>>],
     [id |-> 2, bldg_type |-> "Residential", amenities |-> 0,
      polygon |-> {<<1, 0>>}, label_center |-> <<1, 0>>],
     [id |-> 3, bldg_type |-> "Residential", amenities |-> 0,
      polygon |-> {<<2, 0>>}, label_center |-> <<2, 0>>] >>

BuildingIDs == {Buildings[i].id : i \in 1..Len(Buildings)}

get_b(b) == Buildings[b + 1]

\* map_model::connectivity::all_costs_from(map, depot, 3 hours, Pedestrian)
house_costs == [b \in {2, 3} |-> IF b = 2 THEN Minutes(15) ELSE Minutes(105)]

\* the extent of the map
Cells == (0..2) \X (0..1)

\* BldgState
Depot == [tag |-> "Depot"]
Done == [tag |-> "Done"]
Undelivered(score, cost) == [tag |-> "Undelivered", score |-> score, cost |-> cost]

IsUndelivered(houses, b) == b \in DOMAIN houses /\ houses[b].tag = "Undelivered"
IsDepot(houses, b) == b \in DOMAIN houses /\ houses[b].tag = "Depot"
IsDone(houses, b) == b \in DOMAIN houses /\ houses[b].tag = "Done"

\* find that falls back on the first building of the catalog
find_commercial_or_first(bs) ==
  LET idx == {i \in 1..Len(bs) : bs[i].bldg_type = "Commercial"}
  IN IF idx = {} THEN (IF Len(bs) > 0 THEN 1 ELSE 0)
     ELSE CHOOSE i \in idx : \A j \in idx : i <= j

\* Game::new: the index of the first commercial building of a catalog, 0 when
\* find returns None
find_commercial(bs) ==
  LET idx == {i \in 1..Len(bs) : bs[i].bldg_type = "Commercial"}
  IN IF idx = {} THEN 0 ELSE CHOOSE i \in idx : \A j \in idx : i <= j

depot == Buildings[find_commercial(Buildings)]

\* the scan that tests the amenities before the building type
new_houses_amenities_first(bs, costs) ==
  LET in == {i \in 1..Len(bs) :
               bs[i].bldg_type = "Residential" \/ bs[i].amenities > 0}
      at(b) == CHOOSE i \in in : bs[i].id = b
  IN [b \in {bs[i].id : i \in in} |->
        IF bs[at(b)].amenities > 0
        THEN Depot
        ELSE Undelivered(b, IF b \in DOMAIN costs THEN costs[b] ELSE 0)]

\* SleighState::new: the scan of a catalog that fills houses
new_houses(bs, costs) ==
  LET in == {i \in 1..Len(bs) :
               bs[i].bldg_type = "Residential" \/ bs[i].amenities > 0}
      at(b) == CHOOSE i \in in : bs[i].id = b
  IN [b \in {bs[i].id : i \in in} |->
        IF bs[at(b)].bldg_type = "Residential"
        THEN Undelivered(b, IF b \in DOMAIN costs THEN costs[b] ELSE 0)
        ELSE Depot]

NewHouses == new_houses(Buildings, house_costs)

\* SleighState::redraw: the batch of done buildings plus the depot
redraw(s) ==
  [s EXCEPT !.draw_done = {b \in DOMAIN s.houses : s.houses[b].tag = "Done"}
                            \cup {s.depot},
            !.redraws = s.redraws + 1]

\* has_energy testing >= instead of >
has_energy_or_zero(s) == s.energy >= 0

\* SleighState::has_energy
has_energy(s) == s.energy > 0

\* present_dropped that leaves the energy alone
present_dropped_free(s, id) ==
  IF IsUndelivered(s.houses, id)
  THEN [ret |-> TRUE,
        s |-> redraw([s EXCEPT !.score = s.score + s.houses[id].score,
                               !.houses = [s.houses EXCEPT ![id] = Done]])]
  ELSE [ret |-> FALSE, s |-> s]

\* present_dropped that accepts every building that is no depot
present_dropped_again(s, id) ==
  IF id \in DOMAIN s.houses /\ ~IsDepot(s.houses, id)
  THEN [ret |-> TRUE,
        s |-> redraw([s EXCEPT !.score = s.score + id,
                               !.houses = [s.houses EXCEPT ![id] = Done]])]
  ELSE [ret |-> FALSE, s |-> s]

\* present_dropped that adds the cost to the score
present_dropped_cost(s, id) ==
  IF IsUndelivered(s.houses, id)
  THEN [ret |-> TRUE,
        s |-> redraw([s EXCEPT !.score = s.score + s.houses[id].cost,
                               !.houses = [s.houses EXCEPT ![id] = Done],
                               !.energy = s.energy - s.houses[id].cost])]
  ELSE [ret |-> FALSE, s |-> s]

\* present_dropped that removes the entry of the house
present_dropped_remove(s, id) ==
  IF IsUndelivered(s.houses, id)
  THEN [ret |-> TRUE,
        s |-> redraw([s EXCEPT !.score = s.score + s.houses[id].score,
                               !.houses = [b \in DOMAIN s.houses \ {id} |-> s.houses[b]],
                               !.energy = s.energy - s.houses[id].cost])]
  ELSE [ret |-> FALSE, s |-> s]

\* SleighState::present_dropped: the result and the state it leaves
present_dropped(s, id) ==
  IF IsUndelivered(s.houses, id)
  THEN [ret |-> TRUE,
        s |-> redraw([s EXCEPT !.score = s.score + s.houses[id].score,
                               !.houses = [s.houses EXCEPT ![id] = Done],
                               !.energy = s.energy - s.houses[id].cost])]
  ELSE [ret |-> FALSE, s |-> s]

Min(a, b) == IF a < b THEN a ELSE b

\* recharge without the clamp to max_energy
recharge_unclamped(s, id, dt) ==
  IF IsDepot(s.houses, id)
  THEN [ret |-> TRUE,
        s |-> redraw([s EXCEPT !.energy = s.energy + recharge_rate * dt])]
  ELSE [ret |-> FALSE, s |-> s]

\* recharge at every building that has an entry in houses
recharge_any(s, id, dt) ==
  IF id \in DOMAIN s.houses
  THEN [ret |-> TRUE,
        s |-> redraw([s EXCEPT !.energy =
                         Min(s.energy + recharge_rate * dt, max_energy)])]
  ELSE [ret |-> FALSE, s |-> s]

\* SleighState::recharge
recharge(s, id, dt) ==
  IF IsDepot(s.houses, id)
  THEN [ret |-> TRUE,
        s |-> redraw([s EXCEPT !.energy =
                         Min(s.energy + recharge_rate * dt, max_energy)])]
  ELSE [ret |-> FALSE, s |-> s]

\* Pt2D::offset
offset(pt, dx, dy) == <<pt[1] + dx, pt[2] + dy>>

\* the lookup without the test of the status in houses
OverBldgKey_any(pt, houses) ==
  LET hits == {b \in BuildingIDs : pt \in get_b(b).polygon}
  IN IF hits = {} THEN {NoBldg} ELSE hits

\* OverBldg::key: the buildings the lookup may return (the iteration order of
\* the spatial index is not fixed), NoBldg when none qualifies
OverBldgKey(pt, houses) ==
  LET hits == {b \in BuildingIDs :
                 /\ pt \in get_b(b).polygon
                 /\ (IsUndelivered(houses, b) \/ IsDepot(houses, b))}
  IN IF hits = {} THEN {NoBldg} ELSE hits

\* Cached::update: keeps the value when the key is unchanged
CachedUpdate(cur, key) == key

\* how many of OverBldg::key and OverBldg::value ran for one update
Recomputes(cur, key) == IF key # NoBldg /\ key # cur THEN 2 ELSE 1

VARIABLES
  sleigh,      \* Game.sleigh
  controls,    \* Game.controls: "instant" or "rotate"
  over_bldg,   \* Game.over_bldg: the cached key, NoBldg when empty
  state,       \* Game.state: SleighState (redraws counts redraw calls of the last tick)
  dt,          \* the update event of the last tick, NoUpdate when it was none
  space_down,  \* ctx.is_key_down(Key::Space) in the update event of the last tick
  recharging,  \* the local of Game::event in the last tick
  dropped,     \* present_dropped in the last tick: -1 not called, 0 false, 1 true
  recompute,   \* number of OverBldg::key / OverBldg::value runs in the last tick
  elapsed,     \* update time summed since the start, -1 after a recharge, a
               \* delivery or once past max_energy
  map,         \* app.map: the catalog and the costs from the depot
  session      \* "none" before Game::new, "running" after it, "panicked" when
               \* it aborted

vars == <<sleigh, controls, over_bldg, state, dt, space_down, recharging, dropped,
          recompute, elapsed, map, session>>

score == state.score
energy == state.energy
houses == state.houses

\* the map the game is played on
TheMap == [buildings |-> Buildings, costs |-> house_costs]

\* SleighState::new
sleigh_state_new(m, d) ==
  redraw([depot |-> d, score |-> 0, energy |-> max_energy,
          houses |-> new_houses(m.buildings, m.costs),
          draw_done |-> {}, redraws |-> 0])

\* Game::new and SleighState::new
Init ==
  /\ map = TheMap
  /\ session = "running"
  /\ sleigh = depot.label_center
  /\ controls = "instant"
  /\ over_bldg = NoBldg
  /\ state = sleigh_state_new(map, depot.id)
  /\ dt = NoUpdate
  /\ space_down = FALSE
  /\ recharging = FALSE
  /\ dropped = -1
  /\ recompute = 0
  /\ elapsed = 0

\* ctx.input.nonblocking_is_update_event(): the elapsed times an update carries
Elapsed == 0..MaxDt

\* self.panel.event(ctx): nothing, a click on a button, the checkbox toggled.
\* A click returns Pop or Push and leaves the fields of Game alone.
Outcomes == {"none", "close", "change map", "changed"}

\* the move that updates the cache in every tick
MoveStep_always(pt, ob, s, dx, dy) ==
  {[sleigh |-> offset(pt, dx, dy),
    over_bldg |-> CachedUpdate(ob, k),
    recompute |-> Recomputes(ob, k)] :
      k \in OverBldgKey(offset(pt, dx, dy), s.houses)}

\* the move that resolves the key at the point the sleigh leaves
MoveStep_before(pt, ob, s, dx, dy) ==
  IF dx # 0 \/ dy # 0
  THEN {[sleigh |-> offset(pt, dx, dy),
         over_bldg |-> CachedUpdate(ob, k),
         recompute |-> Recomputes(ob, k)] :
           k \in OverBldgKey(pt, s.houses)}
  ELSE {[sleigh |-> pt, over_bldg |-> ob, recompute |-> 0]}

\* Game::event, the move: the sleigh is offset and the cache updated only when
\* the displacement is not zero
MoveStep(pt, ob, s, dx, dy) ==
  IF dx # 0 \/ dy # 0
  THEN {[sleigh |-> offset(pt, dx, dy),
         over_bldg |-> CachedUpdate(ob, k),
         recompute |-> Recomputes(ob, k)] :
           k \in OverBldgKey(offset(pt, dx, dy), s.houses)}
  ELSE {[sleigh |-> pt, over_bldg |-> ob, recompute |-> 0]}

\* the delivery that leaves the cache as it is
DeliverStep_keep(ob, s) ==
  IF ob # NoBldg /\ has_energy(s)
  THEN LET pd == present_dropped(s, ob)
       IN [over_bldg |-> ob,
           state |-> pd.s,
           dropped |-> IF pd.ret THEN 1 ELSE 0]
  ELSE [over_bldg |-> ob, state |-> s, dropped |-> -1]

\* the delivery that is made only when the energy covers the cost
DeliverStep_afford(ob, s) ==
  IF ob # NoBldg /\ has_energy(s)
     /\ (IsUndelivered(s.houses, ob) => s.energy >= s.houses[ob].cost)
  THEN LET pd == present_dropped(s, ob)
       IN [over_bldg |-> IF pd.ret THEN NoBldg ELSE ob,
           state |-> pd.s,
           dropped |-> IF pd.ret THEN 1 ELSE 0]
  ELSE [over_bldg |-> ob, state |-> s, dropped |-> -1]

\* Game::event, the delivery: present_dropped is called only with energy left,
\* and a delivery clears the cache
DeliverStep(ob, s) ==
  IF ob # NoBldg /\ has_energy(s)
  THEN LET pd == present_dropped(s, ob)
       IN [over_bldg |-> IF pd.ret THEN NoBldg ELSE ob,
           state |-> pd.s,
           dropped |-> IF pd.ret THEN 1 ELSE 0]
  ELSE [over_bldg |-> ob, state |-> s, dropped |-> -1]

\* decay by one unit whatever the elapsed time
Decay_fixed(s, d) == [s EXCEPT !.energy = s.energy - 1]

\* self.state.energy -= dt
Decay(s, d) == [s EXCEPT !.energy = s.energy - d]

\* the update event that decays without testing has_energy
UpdateStep_unguarded(ob, s, upd, space) ==
  IF upd = NoUpdate
  THEN [state |-> s, recharging |-> FALSE]
  ELSE LET rc == IF ob # NoBldg /\ space THEN recharge(s, ob, upd)
                 ELSE [ret |-> FALSE, s |-> s]
       IN [state |-> IF ~rc.ret THEN Decay(rc.s, upd) ELSE rc.s,
           recharging |-> rc.ret]

\* the update event that decays in a tick that recharged too
UpdateStep_both(ob, s, upd, space) ==
  IF upd = NoUpdate
  THEN [state |-> s, recharging |-> FALSE]
  ELSE LET rc == IF ob # NoBldg /\ space THEN recharge(s, ob, upd)
                 ELSE [ret |-> FALSE, s |-> s]
       IN [state |-> IF has_energy(rc.s) THEN Decay(rc.s, upd) ELSE rc.s,
           recharging |-> rc.ret]

\* Game::event, the update event: recharge when Space is down over a depot,
\* else decay while there is energy
UpdateStep(ob, s, upd, space) ==
  IF upd = NoUpdate
  THEN [state |-> s, recharging |-> FALSE]
  ELSE LET rc == IF ob # NoBldg /\ space THEN recharge(s, ob, upd)
                 ELSE [ret |-> FALSE, s |-> s]
       IN [state |-> IF ~rc.ret /\ has_energy(rc.s) THEN Decay(rc.s, upd)
                     ELSE rc.s,
           recharging |-> rc.ret]

\* Game::event, the panel: the checkbox swaps the controller
PanelStep(c, outcome) ==
  IF outcome = "changed"
  THEN (IF c = "instant" THEN "rotate" ELSE "instant")
  ELSE c

\* the sum of the update times of a run without recharge and delivery
Sum(e, upd, impure) ==
  LET sum == e + (IF upd = NoUpdate THEN 0 ELSE upd)
  IN IF e = -1 \/ impure \/ sum > max_energy THEN -1 ELSE sum

\* the tick whose controller swap puts the sleigh back on the depot
Tick_reset(dx, dy, upd, space, outcome) ==
  \E mv \in MoveStep(sleigh, over_bldg, [state EXCEPT !.redraws = 0], dx, dy) :
    LET dl == DeliverStep(mv.over_bldg, [state EXCEPT !.redraws = 0])
        up == UpdateStep(dl.over_bldg, dl.state, upd, space)
    IN
    /\ mv.sleigh \in Cells
    /\ sleigh' = IF outcome = "changed" THEN depot.label_center ELSE mv.sleigh
    /\ over_bldg' = dl.over_bldg
    /\ state' = up.state
    /\ dt' = upd
    /\ space_down' = space
    /\ recharging' = up.recharging
    /\ dropped' = dl.dropped
    /\ recompute' = mv.recompute
    /\ elapsed' = Sum(elapsed, upd, dl.dropped = 1 \/ up.recharging)
    /\ controls' = PanelStep(controls, outcome)
    /\ UNCHANGED <<map, session>>

\* Game::event, one tick with its inputs
Tick(dx, dy, upd, space, outcome) ==
  \E mv \in MoveStep(sleigh, over_bldg, [state EXCEPT !.redraws = 0], dx, dy) :
    LET dl == DeliverStep(mv.over_bldg, [state EXCEPT !.redraws = 0])
        up == UpdateStep(dl.over_bldg, dl.state, upd, space)
    IN
    /\ mv.sleigh \in Cells
    /\ sleigh' = mv.sleigh
    /\ over_bldg' = dl.over_bldg
    /\ state' = up.state
    /\ dt' = upd
    /\ space_down' = space
    /\ recharging' = up.recharging
    /\ dropped' = dl.dropped
    /\ recompute' = mv.recompute
    /\ elapsed' = Sum(elapsed, upd, dl.dropped = 1 \/ up.recharging)
    /\ controls' = PanelStep(controls, outcome)
    /\ UNCHANGED <<map, session>>

\* the inputs of a tick: ctx.is_key_down(Key::Space) is read in update events only
Event ==
  \E dx \in -MaxStep..MaxStep, dy \in -MaxStep..MaxStep :
    /\ offset(sleigh, dx, dy) \in Cells
    /\ \E upd \in {NoUpdate} \cup Elapsed, outcome \in Outcomes :
         \E space \in (IF upd = NoUpdate THEN {FALSE} ELSE BOOLEAN) :
           Tick(dx, dy, upd, space, outcome)

Next == Event

Spec == Init /\ [][Next]_vars

\* ------------------------------------------------- the construction alone
BldgTypes == {"Residential", "ResidentialCommercial", "Commercial", "Empty"}

\* the catalogs of at most MaxCatalog buildings, building i on cell <<i - 1, 0>>
Catalogs ==
  UNION {
    {[i \in 1..n |-> [id |-> i - 1, bldg_type |-> t[i], amenities |-> a[i],
                      polygon |-> {<<i - 1, 0>>}, label_center |-> <<i - 1, 0>>]] :
        t \in [1..n -> BldgTypes], a \in [1..n -> 0..1]} :
    n \in 1..MaxCatalog}

\* the cost fields of a catalog: some buildings are left out as unreachable
CostFields(bs) ==
  UNION {[r -> {Minutes(15)}] : r \in SUBSET {bs[i].id : i \in 1..Len(bs)}}

Maps == UNION {{[buildings |-> bs, costs |-> c] : c \in CostFields(bs)} : bs \in Catalogs}

NoState == [depot |-> NoBldg, score |-> 0, energy |-> 0, houses |-> << >>,
            draw_done |-> {}, redraws |-> 0]

InitNew ==
  /\ map \in Maps
  /\ session = "none"
  /\ sleigh = <<0, 0>>
  /\ controls = "instant"
  /\ over_bldg = NoBldg
  /\ state = NoState
  /\ dt = NoUpdate
  /\ space_down = FALSE
  /\ recharging = FALSE
  /\ dropped = -1
  /\ recompute = 0
  /\ elapsed = 0

\* Game::new when find returns a commercial building
NewGame ==
  /\ session = "none"
  /\ find_commercial(map.buildings) # 0
  /\ LET d == map.buildings[find_commercial(map.buildings)]
     IN /\ sleigh' = d.label_center
        /\ state' = sleigh_state_new(map, d.id)
  /\ controls' = "instant"
  /\ over_bldg' = NoBldg
  /\ session' = "running"
  /\ UNCHANGED <<map, dt, space_down, recharging, dropped, recompute, elapsed>>

\* Game::new when find returns None: unwrap panics
NewGamePanic ==
  /\ session = "none"
  /\ find_commercial(map.buildings) = 0
  /\ session' = "panicked"
  /\ UNCHANGED <<map, sleigh, controls, over_bldg, state, dt, space_down,
                 recharging, dropped, recompute, elapsed>>

NextNew == NewGame \/ NewGamePanic

SpecNew == InitNew /\ [][NextNew]_vars

\* ------------------------------------------------------------ properties

\* an id the catalog does not hold
Unknown == Len(Buildings)

Houses2Done(h, b) == [h EXCEPT ![b] = Done]

RECURSIVE StoredScores(_)
StoredScores(S) ==
  IF S = {} THEN 0
  ELSE LET b == CHOOSE x \in S : TRUE
       IN NewHouses[b].score + StoredScores(S \ {b})

DoneSet(h) == {b \in DOMAIN h : h[b].tag = "Done"}

\* C1: energy never drops below zero; a decay or a delivery that would take it
\* below zero leaves it at exactly 0.
C1_EnergyNeverNegative == energy >= 0

\* C2: energy starts at max_energy and never exceeds it; a recharge of elapsed
\* time d sets energy to min(max_energy, energy + recharge_rate * d).
C2_EnergyCeiling ==
  /\ energy = max_energy
  /\ [](energy <= max_energy)
  /\ [][recharging' =>
          LET e == energy + recharge_rate * dt'
          IN energy' = IF e > max_energy THEN max_energy ELSE e]_vars

C2_Witness == recharging /\ dt > 0 /\ energy = max_energy

\* C3: a delivery attempt on an Undelivered{score, cost} building returns true,
\* sets it to Done, adds score to the total, subtracts cost from energy and
\* changes no other building; a tick that delivers does just that before its
\* update event is handled.
C3_DeliveryEffect ==
  /\ [](\A b \in BuildingIDs :
          IsUndelivered(houses, b) =>
            LET r == present_dropped(state, b)
            IN /\ r.ret
               /\ r.s.houses = Houses2Done(houses, b)
               /\ r.s.score = score + houses[b].score
               /\ r.s.energy = energy - houses[b].cost)
  /\ [][dropped' = 1 =>
          \E b \in BuildingIDs :
            /\ IsUndelivered(houses, b)
            /\ houses' = Houses2Done(houses, b)
            /\ score' = score + houses[b].score
            /\ dt' = NoUpdate => energy' = energy - houses[b].cost]_vars

C3_Witness ==
  /\ dropped = 1 /\ dt = NoUpdate
  /\ IsDone(houses, 2) /\ IsUndelivered(houses, 3)
  /\ score = 2 /\ energy = max_energy - Minutes(15)

\* C4: a delivery attempt on an id whose status is not Undelivered (Done, Depot
\* or absent from houses) returns false and leaves score, energy and houses
\* unchanged.
C4_FailedDeliveryNoOp ==
  /\ [](\A b \in BuildingIDs \cup {Unknown} :
          ~IsUndelivered(houses, b) =>
            LET r == present_dropped(state, b)
            IN /\ ~r.ret
               /\ r.s.houses = houses
               /\ r.s.score = score
               /\ r.s.energy = energy)
  /\ [][dropped' = 0 =>
          /\ houses' = houses
          /\ score' = score
          /\ dt' = NoUpdate => energy' = energy]_vars

C4_Witness ==
  /\ dropped = 0 /\ dt = NoUpdate
  /\ \E b \in BuildingIDs : IsDone(houses, b)

\* C5: score never decreases, equals the sum of the stored scores of the
\* buildings that are Done, and changes only in a step that turns one building
\* from Undelivered to Done.
C5_ScoreLedger ==
  /\ [](score = StoredScores(DoneSet(houses)))
  /\ [][score' >= score]_vars
  /\ [][score' # score =>
          \E b \in BuildingIDs :
            /\ IsUndelivered(houses, b)
            /\ houses' = Houses2Done(houses, b)]_vars

C5_Witness == IsDone(houses, 2) /\ IsDone(houses, 3) /\ score = 5

\* C6: the set of ids in houses never changes, a Depot stays Depot, a Done
\* stays Done, and an Undelivered entry stays as it is or becomes Done.
C6_Lifecycle ==
  [][/\ DOMAIN houses' = DOMAIN houses
     /\ \A b \in DOMAIN houses :
          /\ IsDepot(houses, b) => IsDepot(houses', b)
          /\ IsDone(houses, b) => IsDone(houses', b)
          /\ IsUndelivered(houses, b) =>
               houses'[b] = houses[b] \/ IsDone(houses', b)]_vars

C6_Witness ==
  /\ IsDone(houses, 3) /\ IsUndelivered(houses, 2)
  /\ recharging /\ IsDepot(houses, over_bldg)

\* C7: no building changes from Undelivered to Done and score does not change
\* in a tick in which has_energy() is false at the delivery check.
C7_DeliveryGated ==
  [][energy <= 0 => houses' = houses /\ score' = score]_vars

C7_Witness ==
  /\ energy <= 0
  /\ IsUndelivered(houses, over_bldg)
  /\ sleigh \in get_b(over_bldg).polygon

\* C8: once has_energy() is false, energy, score and houses stay as they are
\* (so it stays false) in every tick that does not recharge.
C8_ExhaustionAbsorbing ==
  [][energy <= 0 /\ ~recharging' =>
       /\ energy' = energy
       /\ score' = score
       /\ houses' = houses]_vars

C8_Witness == energy = -1 /\ dt = 1 /\ dropped = -1 /\ ~recharging

\* C9: from full energy, with no recharge and no delivery, an update tick with
\* elapsed time dt lowers energy by dt while has_energy() holds, and when the
\* elapsed times sum to max_energy, energy is exactly 0.
C9_DecayToZero ==
  /\ [](elapsed = max_energy => energy = 0 /\ ~has_energy(state))
  /\ [](elapsed >= 0 /\ elapsed < max_energy => energy = max_energy - elapsed)
  /\ [][/\ dt' # NoUpdate /\ ~recharging' /\ dropped' # 1 /\ energy > 0
        => energy' = energy - dt']_vars

C9_Witness == elapsed = max_energy /\ energy = 0 /\ dt > 0

\* C10: in a tick whose displacement is zero the cache key is unchanged and
\* neither OverBldg::key nor OverBldg::value runs.
C10_CacheStable ==
  [][sleigh' = sleigh => over_bldg' = over_bldg /\ recompute' = 0]_vars

C10_Witness == recompute = 0 /\ over_bldg # NoBldg /\ dt # NoUpdate

\* the buildings whose polygon holds a point
Inside(pt) == {b \in BuildingIDs : pt \in get_b(b).polygon}

Interactive(h, b) == IsUndelivered(h, b) \/ IsDepot(h, b)

\* C11: the key resolved for a point inside building b's polygon is b only if
\* b is Undelivered or Depot; it is None if b is Done or has no entry in
\* houses, and None if the point is inside no polygon.
C11_KeyCorrect ==
  /\ [](\A pt \in Cells :
          /\ Inside(pt) = {} => OverBldgKey(pt, houses) = {NoBldg}
          /\ \A b \in Inside(pt) :
               OverBldgKey(pt, houses) =
                 IF Interactive(houses, b) THEN {b} ELSE {NoBldg})
  /\ [][recompute' > 0 =>
          /\ over_bldg' # NoBldg =>
               /\ over_bldg' \in Inside(sleigh')
               /\ Interactive(houses', over_bldg')
          /\ \A b \in Inside(sleigh') :
               IsDone(houses, b) \/ b \notin DOMAIN houses =>
                 over_bldg' = NoBldg
          /\ Inside(sleigh') = {} => over_bldg' = NoBldg]_vars

C11_Witness ==
  /\ recompute = 1 /\ dropped = -1 /\ over_bldg = NoBldg
  /\ \E b \in Inside(sleigh) : IsDone(houses, b)

\* the cost of the house a step delivers to, 0 when it delivers to none
DeliveredCost(h, h2) ==
  LET S == {b \in DOMAIN h : IsUndelivered(h, b) /\ IsDone(h2, b)}
  IN IF S = {} THEN 0 ELSE h[CHOOSE b \in S : TRUE].cost

\* C14: a recharge is applied exactly in update ticks with the recharge input
\* held over a keyed Depot, and such a tick does not decrement energy by the
\* elapsed time; decay by dt is applied exactly in update ticks with no
\* recharge and has_energy() true.
C14_RechargeXorDecay ==
  [][LET mid == energy - DeliveredCost(houses, houses')
         up == mid + recharge_rate * dt'
     IN /\ recharging' <=>
             dt' # NoUpdate /\ space_down' /\ IsDepot(houses', over_bldg')
        /\ recharging' =>
             energy' = IF up > max_energy THEN max_energy ELSE up
        /\ dt' # NoUpdate /\ ~recharging' /\ mid > 0 => energy' = mid - dt'
        /\ dt' = NoUpdate \/ (~recharging' /\ mid <= 0) => energy' = mid]_vars

C14_Witness ==
  /\ recharging /\ space_down /\ dt = MaxDt
  /\ IsDepot(houses, over_bldg) /\ energy = max_energy

\* C15: energy increases only in an update tick with the recharge input held
\* and a Depot keyed; a recharge attempt on a building that is not a Depot
\* returns false and leaves the energy alone.
C15_RestoredOnlyAtDepot ==
  /\ [](\A b \in BuildingIDs \cup {Unknown}, d \in Elapsed :
          ~IsDepot(houses, b) =>
            LET r == recharge(state, b, d)
            IN ~r.ret /\ r.s.energy = energy)
  /\ [][energy' > energy =>
          /\ dt' # NoUpdate /\ space_down'
          /\ over_bldg' # NoBldg /\ IsDepot(houses', over_bldg')]_vars
  /\ [][/\ dt' # NoUpdate /\ space_down'
        /\ over_bldg' # NoBldg /\ ~IsDepot(houses', over_bldg')
        => ~recharging' /\ energy' <= energy]_vars

C15_Witness ==
  /\ space_down /\ dt > 0 /\ ~recharging
  /\ IsUndelivered(houses, over_bldg) /\ energy <= 0

\* C16: a tick that delivers ends with the cache cleared, and the id of a
\* Done building is never the cache key afterwards.
C16_ClearedAfterDelivery ==
  /\ [][dropped' = 1 => over_bldg' = NoBldg]_vars
  /\ [](over_bldg # NoBldg => ~IsDone(houses, over_bldg))

C16_Witness ==
  /\ dropped = 1 /\ over_bldg = NoBldg
  /\ \E b \in Inside(sleigh) : IsDone(houses, b)

\* C19: whenever key() is Some(b), the sleigh is inside b's polygon and b is
\* Undelivered or Depot in houses.
C19_CacheValid ==
  over_bldg # NoBldg =>
    /\ sleigh \in get_b(over_bldg).polygon
    /\ Interactive(houses, over_bldg)

C19_Witness ==
  /\ over_bldg # NoBldg /\ recompute = 0
  /\ IsDepot(houses, over_bldg) /\ sleigh \in get_b(over_bldg).polygon
  /\ \E b \in DOMAIN houses : IsDone(houses, b)

\* C20: a tick that moves the sleigh onto an Undelivered building with
\* has_energy() true delivers to it in that tick, so a keyed Undelivered
\* building means has_energy() is false; no tick both delivers and recharges.
C20_ImmediateDelivery ==
  /\ [](IsUndelivered(houses, over_bldg) => energy <= 0)
  /\ [][dropped' = 1 => ~recharging']_vars
  /\ [][recompute' > 0 /\ energy > 0 =>
          \A b \in Inside(sleigh') :
            IsUndelivered(houses, b) => dropped' = 1 /\ IsDone(houses', b)]_vars

C20_Witness ==
  /\ dropped = 1 /\ recompute = 2 /\ dt # NoUpdate /\ space_down
  /\ ~recharging

\* C17: the batch of done buildings is rebuilt only in a tick in which a
\* building's status changed.
C17_RedrawOnlyOnTransition ==
  [][state'.redraws > 0 => houses' # houses]_vars

\* C18: a tick that swaps the controller, with no displacement and no update
\* event, leaves position, score, energy, houses and the cache key unchanged;
\* with no displacement it leaves the position unchanged.
C18_SwitchKeepsState ==
  /\ [][controls' # controls /\ recompute' = 0 => sleigh' = sleigh]_vars
  /\ [][controls' # controls /\ recompute' = 0 /\ dt' = NoUpdate =>
          /\ sleigh' = sleigh
          /\ score' = score
          /\ energy' = energy
          /\ houses' = houses
          /\ over_bldg' = over_bldg]_vars

C18_Witness ==
  /\ controls = "rotate" /\ recompute = 0 /\ dt = NoUpdate
  /\ sleigh # depot.label_center /\ over_bldg # NoBldg
  /\ score > 0 /\ energy < max_energy

Residential(b) == b.bldg_type = "Residential"

\* C12: construction classifies every catalog building exactly once:
\* Undelivered{score = id, cost = its cost-field value or zero} iff it is
\* residential, Depot iff it is not residential and has an amenity, absent
\* otherwise; score starts at 0 and energy at max_energy.
C12_Classification ==
  session = "running" =>
    /\ score = 0
    /\ energy = max_energy
    /\ DOMAIN houses \subseteq {map.buildings[i].id : i \in 1..Len(map.buildings)}
    /\ \A i \in 1..Len(map.buildings) :
         LET b == map.buildings[i]
             cost == IF b.id \in DOMAIN map.costs THEN map.costs[b.id] ELSE 0
         IN /\ IsUndelivered(houses, b.id) <=> Residential(b)
            /\ Residential(b) => houses[b.id] = Undelivered(b.id, cost)
            /\ IsDepot(houses, b.id) <=> ~Residential(b) /\ b.amenities > 0
            /\ b.id \notin DOMAIN houses <=> ~Residential(b) /\ b.amenities = 0

C12_Witness ==
  /\ session = "running"
  /\ \E b \in DOMAIN houses :
       IsUndelivered(houses, b) /\ b \notin DOMAIN map.costs /\ houses[b].cost = 0
  /\ \E b \in DOMAIN houses : IsDepot(houses, b)

Commercials(bs) == {i \in 1..Len(bs) : bs[i].bldg_type = "Commercial"}

\* C13: construction aborts when the catalog holds no commercial building and
\* never falls back on another building; otherwise the depot is the first
\* commercial building in catalog order and the sleigh starts at its label
\* centre.
C13_DepotOrPanic ==
  /\ [](session = "running" =>
          /\ Commercials(map.buildings) # {}
          /\ \E i \in Commercials(map.buildings) :
               /\ \A j \in Commercials(map.buildings) : i <= j
               /\ state.depot = map.buildings[i].id
               /\ sleigh = map.buildings[i].label_center)
  /\ [](session = "panicked" =>
          Commercials(map.buildings) = {} /\ state = NoState)
  /\ [][session = "none" /\ Commercials(map.buildings) = {} =>
          session' = "panicked"]_vars

C13_Witness ==
  /\ session = "panicked"
  /\ \E i \in 1..Len(map.buildings) : map.buildings[i].amenities > 0

====
